---- MODULE Spec2Model ----
(***************************************************************************)
(* Model of handle.hpp: the HandleTraits resolver and the owning wrapper   *)
(* Handle<_Ty>, together with the operating system's table of live handle  *)
(* values that the close functions act on.                                 *)
(***************************************************************************)
EXTENDS Integers, Sequences, FiniteSets, Bags, TLC

(* ------------------------------ bounds --------------------------------- *)
\* real handle values the operating system can issue are 1..MaxHandle
MaxHandle == 2
\* non-sentinel values one wrapper may adopt through its constructor or operator=
MaxAdopt == 2
\* writes through the pointer returned by operator& per wrapper
MaxWrites == 1
\* wrapper instances declared by the program with several wrappers
MaxWrappers == 2

(* ------------------------- raw handle values --------------------------- *)
\* nullptr / NULL
NULL == 0
\* INVALID_HANDLE_VALUE is (HANDLE)-1, the all-ones bit pattern
INVALID_HANDLE_VALUE == 0 - 1

RealHandles == 1..MaxHandle
Handles == {INVALID_HANDLE_VALUE, NULL} \cup RealHandles

(* ------------------------- handle categories --------------------------- *)
\* namespace HandleType
HandleType ==
    {"Event", "Mutex", "Semaphore", "Process", "Thread", "IoCompletionPort",
     "Job", "WaitableTimer",
     "File", "NamedPipe", "MailSlot", "FileMapping", "Snapshot"}

\* concept HandleValueNull<_Tag>
HandleValueNull(tag) ==
    \/ tag = "Event"
    \/ tag = "Mutex"
    \/ tag = "Process"
    \/ tag = "Thread"
    \/ tag = "Job"
    \/ tag = "WaitableTimer"
    \/ tag = "IoCompletionPort"

\* concept HandleValueInvalid<_Tag>
HandleValueInvalid(tag) ==
    \/ tag = "File"
    \/ tag = "NamedPipe"
    \/ tag = "FileMapping"
    \/ tag = "MailSlot"
    \/ tag = "Snapshot"

\* the static_assert branch of GetHandleInvalidValue: the build is rejected
Unhandled == "Unhandled handle type"

\* TaggedHandle<_Tag>::GetHandleInvalidValue
GetHandleInvalidValue(tag) ==
    IF HandleValueNull(tag) THEN NULL
    ELSE IF HandleValueInvalid(tag) THEN INVALID_HANDLE_VALUE
    ELSE Unhandled

\* the specialisations stamped out by CREATE_HANDLE_TRAITS
MacroTraits ==
    [SOCKET    |-> [invalid |-> NULL, close |-> "closesocket"],
     HKEY      |-> [invalid |-> NULL, close |-> "RegCloseKey"],
     HWND      |-> [invalid |-> NULL, close |-> "DestroyWindow"],
     HMENU     |-> [invalid |-> NULL, close |-> "DestroyMenu"],
     HICON     |-> [invalid |-> NULL, close |-> "DestroyIcon"],
     HDC       |-> [invalid |-> NULL, close |-> "DeleteDC"],
     HBITMAP   |-> [invalid |-> NULL, close |-> "DeleteObject"],
     HPEN      |-> [invalid |-> NULL, close |-> "DeleteObject"],
     HBRUSH    |-> [invalid |-> NULL, close |-> "DeleteObject"],
     HPALETTE  |-> [invalid |-> NULL, close |-> "DeleteObject"],
     HINSTANCE |-> [invalid |-> NULL, close |-> "FreeLibrary"]]

MacroTypes == DOMAIN MacroTraits

\* every _Ty the header names
Categories == HandleType \cup MacroTypes

\* HandleTraits<_Ty> can be instantiated: a macro specialisation exists, or
\* the tag passes one of the two concepts so that no static_assert fires
Instantiable(ty) ==
    \/ ty \in MacroTypes
    \/ ty \in HandleType /\ (HandleValueNull(ty) \/ HandleValueInvalid(ty))

\* HandleTraits<_Ty>::InvalidHandleValue
InvalidHandleValue(ty) ==
    IF ty \in MacroTypes THEN MacroTraits[ty].invalid
    ELSE GetHandleInvalidValue(ty)

\* the function HandleTraits<_Ty>::Close calls
CloseFunction(ty) ==
    IF ty \in MacroTypes THEN MacroTraits[ty].close ELSE "CloseHandle"

\* mutant: every type tested against NULL, whatever its sentinel
TraitsValidNullOnly(ty, handle) == handle # NULL

\* HandleTraits<_Ty>::Valid
TraitsValid(ty, handle) == handle # InvalidHandleValue(ty)

(* ---------------- the wrapper's member functions ----------------------- *)
\* What one call does to the wrapper: h is m_Handle, ev the calls to the
\* release function and the stores to m_Handle the call made, in order.
CloseEv(ty, handle) == [k |-> "close", fn |-> CloseFunction(ty), h |-> handle]
StoreEv(handle) == [k |-> "store", fn |-> "", h |-> handle]

\* HandleTraits<_Ty>::Close
TraitsClose(ty, s) == [s EXCEPT !.ev = Append(@, CloseEv(ty, s.h))]

\* Handle::Valid
Valid(ty, s) == TraitsValid(ty, s.h)

\* mutant: the release function is called, m_Handle is not reset
CloseNoReset(ty, s) ==
    IF TraitsValid(ty, s.h) THEN TraitsClose(ty, s) ELSE s

\* mutant: no validity test before the release
CloseUnchecked(ty, s) ==
    LET s1 == TraitsClose(ty, s)
    IN  [h |-> InvalidHandleValue(ty),
         ev |-> Append(s1.ev, StoreEv(InvalidHandleValue(ty)))]

\* mutant: m_Handle is reset, the release function is never called
CloseNoRelease(ty, s) ==
    IF TraitsValid(ty, s.h)
    THEN [h |-> InvalidHandleValue(ty),
          ev |-> Append(s.ev, StoreEv(InvalidHandleValue(ty)))]
    ELSE s

\* Handle::Close
Close(ty, s) ==
    IF TraitsValid(ty, s.h)
    THEN LET s1 == TraitsClose(ty, s)
         IN  [h |-> InvalidHandleValue(ty),
              ev |-> Append(s1.ev, StoreEv(InvalidHandleValue(ty)))]
    ELSE s

\* Handle::Handle(Type handle)
Ctor(ty, handle) == [h |-> handle, ev |-> <<StoreEv(handle)>>]

\* mutant: the new value is stored without closing the old one
OpAssignNoClose(ty, s, handle) ==
    [h |-> handle, ev |-> Append(s.ev, StoreEv(handle))]

\* mutant: the new value is stored first and Close() runs afterwards
OpAssignStoreFirst(ty, s, handle) ==
    LET s1 == [h |-> handle, ev |-> Append(s.ev, StoreEv(handle))]
    IN  IF Valid(ty, s) THEN Close(ty, s1) ELSE s1

\* Handle::operator=(Type handle)
OpAssign(ty, s, handle) ==
    LET s1 == IF Valid(ty, s) THEN Close(ty, s) ELSE s
    IN  [h |-> handle, ev |-> Append(s1.ev, StoreEv(handle))]

\* mutant: a destructor that does nothing
DtorNoClose(ty, s) == s

\* Handle::~Handle
Dtor(ty, s) == Close(ty, s)

\* Handle::Get
Get(ty, s) == s.h

\* Handle::operator Type
OpType(ty, s) == s.h

\* mutant: the write through the pointer closes the old value, as operator= does
OpAddrStoreClosing(ty, s, handle) == OpAssign(ty, s, handle)

\* Handle::operator& followed by the caller's write through the pointer
OpAddrStore(ty, s, handle) == [h |-> handle, ev |-> Append(s.ev, StoreEv(handle))]

(* --------------------------- program state ----------------------------- *)
Wrappers == 1..MaxWrappers

\* the wrappers main() declares: ProcessHandle paint; FileHandle fileHandle
MainType(w) == IF w % 2 = 1 THEN "Process" ELSE "File"

VARIABLES
    ty,         \* ty[w]: the _Ty of wrapper w, fixed when the program is compiled
    life,       \* life[w]: "none" before construction, "alive", "dead" after ~Handle
    m_Handle,   \* m_Handle[w]: Handle::m_Handle
    live,       \* the handle values the operating system currently has open
    released,   \* released[w]: how many calls w made to its release function
    adopted,    \* adopted[w]: how many non-sentinel values w took by constructor or operator=
    written,    \* written[w]: how many non-sentinel values were stored through operator&
    lost,       \* lost[w]: how many valid values a store through operator& overwrote
    badClose,   \* a release function was called with a value that was not open
    allLive,    \* every raw value passed so far was open, or the wrapper's sentinel
    allFresh,   \* every raw value passed so far came straight from a creation API,
                \* or was the wrapper's sentinel
    last        \* the last call: its name, wrapper, argument and where it came from,
                \* m_Handle before the call, the events of the call, the result

vars == <<ty, life, m_Handle, live, released, adopted, written, lost,
          badClose, allLive, allFresh, last>>

NoCall == [op |-> "none", w |-> 0, src |-> "", arg |-> NULL, pre |-> NULL,
           ev |-> <<>>, ret |-> NULL]

\* the wrapper object w as the member functions see it at the start of a call
Self(w) == [h |-> m_Handle[w], ev |-> <<>>]

\* the values of the release calls among the events ev, in order
RECURSIVE Closed(_)
Closed(ev) ==
    IF ev = <<>> THEN <<>>
    ELSE IF Head(ev).k = "close" THEN <<Head(ev).h>> \o Closed(Tail(ev))
    ELSE Closed(Tail(ev))

\* some release call among ev hits a value that is not open, given the open set lv
RECURSIVE BadCloses(_, _)
BadCloses(ev, lv) ==
    IF ev = <<>> THEN FALSE
    ELSE IF Head(ev).k = "close"
         THEN Head(ev).h \notin lv \/ BadCloses(Tail(ev), lv \ {Head(ev).h})
         ELSE BadCloses(Tail(ev), lv)

Range(seq) == {seq[i] : i \in 1..Len(seq)}

\* f[1] + ... + f[n]
RECURSIVE Sum(_, _)
Sum(f, n) == IF n = 0 THEN 0 ELSE f[n] + Sum(f, n - 1)

\* The argument of a call: src = "api" is the result of a creation API called in
\* the same statement (paint = OpenProcess(...)), a value that was not open and
\* is open from then on; src = "raw" is any value the caller has at hand.
Args == {a \in [src : {"api", "raw"}, h : Handles] :
            a.src = "api" => a.h \in RealHandles \ live}

\* the open handles when the member function starts running
LiveAt(a) == IF a.src = "api" THEN live \cup {a.h} ELSE live

\* CloseHandle and the other release functions: the values closed stop being open
Commit(w, s, lv) ==
    /\ m_Handle' = [m_Handle EXCEPT ![w] = s.h]
    /\ released' = [released EXCEPT ![w] = @ + Len(Closed(s.ev))]
    /\ live' = lv \ Range(Closed(s.ev))
    /\ badClose' = (badClose \/ BadCloses(s.ev, lv))

\* the caller's discipline in passing the argument a to wrapper w
Pass(w, a) ==
    /\ allLive' = (allLive /\ (a.h \in LiveAt(a) \/ a.h = InvalidHandleValue(ty[w])))
    /\ allFresh' = (allFresh /\ (a.src = "api" \/ a.h = InvalidHandleValue(ty[w])))

CanAdopt(w, a) ==
    TraitsValid(ty[w], a.h) => Sum(adopted, MaxWrappers) < MaxAdopt

CanWrite(w, a) ==
    TraitsValid(ty[w], a.h) => Sum(written, MaxWrappers) < MaxWrites

InitState ==
    /\ life = [w \in Wrappers |-> "none"]
    /\ m_Handle = [w \in Wrappers |-> InvalidHandleValue(ty[w])]
    /\ live = {}
    /\ released = [w \in Wrappers |-> 0]
    /\ adopted = [w \in Wrappers |-> 0]
    /\ written = [w \in Wrappers |-> 0]
    /\ lost = [w \in Wrappers |-> 0]
    /\ badClose = FALSE
    /\ allLive = TRUE
    /\ allFresh = TRUE
    /\ last = NoCall

\* a program with one wrapper, of any type the header can instantiate
Init ==
    /\ \E c \in {x \in Categories : Instantiable(x)} : ty = [w \in Wrappers |-> c]
    /\ InitState

\* a program with one wrapper of either type main() uses
InitAddr ==
    /\ \E c \in {MainType(w) : w \in 1..2} : ty = [w \in Wrappers |-> c]
    /\ InitState

\* a program with several wrappers, typed as the ones main() declares
InitMulti ==
    /\ ty = [w \in Wrappers |-> MainType(w)]
    /\ InitState

(* ------------------------------ actions -------------------------------- *)
\* Handle h(raw);   Handle h = CreateFile(...);
Construct(w) ==
    \E a \in Args :
        /\ life[w] = "none"
        /\ CanAdopt(w, a)
        /\ LET s == Ctor(ty[w], a.h)
           IN  /\ Commit(w, s, LiveAt(a))
               /\ last' = [op |-> "Construct", w |-> w, src |-> a.src, arg |-> a.h,
                           pre |-> NULL, ev |-> s.ev, ret |-> NULL]
        /\ Pass(w, a)
        /\ adopted' = [adopted EXCEPT ![w] =
                          IF TraitsValid(ty[w], a.h) THEN @ + 1 ELSE @]
        /\ life' = [life EXCEPT ![w] = "alive"]
        /\ UNCHANGED <<ty, written, lost>>

\* Handle h;   the argument defaults to Traits::InvalidHandleValue
ConstructDefault(w) ==
    /\ life[w] = "none"
    /\ LET s == Ctor(ty[w], InvalidHandleValue(ty[w]))
       IN  /\ Commit(w, s, live)
           /\ last' = [op |-> "ConstructDefault", w |-> w, src |-> "", arg |-> NULL,
                       pre |-> NULL, ev |-> s.ev, ret |-> NULL]
    /\ life' = [life EXCEPT ![w] = "alive"]
    /\ UNCHANGED <<ty, adopted, written, lost, allLive, allFresh>>

\* h = raw;   h = OpenProcess(...);
Assign(w) ==
    \E a \in Args :
        /\ life[w] = "alive"
        /\ CanAdopt(w, a)
        /\ LET s == OpAssign(ty[w], Self(w), a.h)
           IN  /\ Commit(w, s, LiveAt(a))
               /\ last' = [op |-> "Assign", w |-> w, src |-> a.src, arg |-> a.h,
                           pre |-> m_Handle[w], ev |-> s.ev, ret |-> NULL]
        /\ Pass(w, a)
        /\ adopted' = [adopted EXCEPT ![w] =
                          IF TraitsValid(ty[w], a.h) THEN @ + 1 ELSE @]
        /\ UNCHANGED <<ty, life, written, lost>>

\* h.Close();
CallClose(w) ==
    /\ life[w] = "alive"
    /\ LET s == Close(ty[w], Self(w))
       IN  /\ Commit(w, s, live)
           /\ last' = [op |-> "Close", w |-> w, src |-> "", arg |-> NULL,
                       pre |-> m_Handle[w], ev |-> s.ev, ret |-> NULL]
    /\ UNCHANGED <<ty, life, adopted, written, lost, allLive, allFresh>>

\* h goes out of scope
Destroy(w) ==
    /\ life[w] = "alive"
    /\ LET s == Dtor(ty[w], Self(w))
       IN  /\ Commit(w, s, live)
           /\ last' = [op |-> "Destroy", w |-> w, src |-> "", arg |-> NULL,
                       pre |-> m_Handle[w], ev |-> s.ev, ret |-> NULL]
    /\ life' = [life EXCEPT ![w] = "dead"]
    /\ UNCHANGED <<ty, adopted, written, lost, allLive, allFresh>>

\* h.Get()
CallGet(w) ==
    /\ life[w] = "alive"
    /\ last' = [op |-> "Get", w |-> w, src |-> "", arg |-> NULL, pre |-> m_Handle[w],
                ev |-> <<>>, ret |-> Get(ty[w], Self(w))]
    /\ UNCHANGED <<ty, life, m_Handle, live, released, adopted, written,
                   lost, badClose, allLive, allFresh>>

\* static_cast<Type>(h), or h passed where a Type is expected
Convert(w) ==
    /\ life[w] = "alive"
    /\ last' = [op |-> "Convert", w |-> w, src |-> "", arg |-> NULL, pre |-> m_Handle[w],
                ev |-> <<>>, ret |-> OpType(ty[w], Self(w))]
    /\ UNCHANGED <<ty, life, m_Handle, live, released, adopted, written,
                   lost, badClose, allLive, allFresh>>

\* *(&h) = raw;   SomeApi(..., &h);   the result is written through operator&'s pointer
AddrWrite(w) ==
    \E a \in Args :
        /\ life[w] = "alive"
        /\ CanWrite(w, a)
        /\ LET s == OpAddrStore(ty[w], Self(w), a.h)
           IN  /\ Commit(w, s, LiveAt(a))
               /\ last' = [op |-> "AddrWrite", w |-> w, src |-> a.src, arg |-> a.h,
                           pre |-> m_Handle[w], ev |-> s.ev, ret |-> NULL]
        /\ Pass(w, a)
        /\ written' = [written EXCEPT ![w] =
                          IF TraitsValid(ty[w], a.h) THEN @ + 1 ELSE @]
        /\ lost' = [lost EXCEPT ![w] =
                       IF TraitsValid(ty[w], m_Handle[w]) THEN @ + 1 ELSE @]
        /\ UNCHANGED <<ty, life, adopted>>

\* the calls a program makes on wrapper w without taking its address
Calls(w) ==
    \/ Construct(w)
    \/ ConstructDefault(w)
    \/ Assign(w)
    \/ CallClose(w)
    \/ CallGet(w)
    \/ Convert(w)
    \/ Destroy(w)

Next == Calls(1)

NextAddr == Calls(1) \/ AddrWrite(1)

NextMulti == \E w \in Wrappers : Calls(w)

Spec == Init /\ [][Next]_vars

SpecAddr == InitAddr /\ [][NextAddr]_vars

SpecMulti == InitMulti /\ [][NextMulti]_vars

(* ------------------- the contract the claims state --------------------- *)
\* the two sentinel families as the specification lists them
NullFamily ==
    {"Event", "Mutex", "Semaphore", "Process", "Thread", "Job", "WaitableTimer",
     "IoCompletionPort"}
InvalidFamily == {"File", "NamedPipe", "MailSlot", "FileMapping", "Snapshot"}

\* the sentinel the specification gives a category
SentinelOf(c) == IF c \in InvalidFamily THEN INVALID_HANDLE_VALUE ELSE NULL

\* the release calls of the last call were all made with the value held before it
ReleasedHeld == \A i \in 1..Len(last.ev) :
                    last.ev[i].k = "close" => last.ev[i].h = last.pre

\* position of the first release call among the events of the last call, 0 if none
FirstClose ==
    IF \E i \in 1..Len(last.ev) : last.ev[i].k = "close"
    THEN CHOOSE i \in 1..Len(last.ev) :
             /\ last.ev[i].k = "close"
             /\ \A j \in 1..(i - 1) : last.ev[j].k # "close"
    ELSE 0

\* C1: over any sequence of Construct, Assign and Close on one wrapper (no
\* address-of), the release calls never outnumber the non-sentinel values
\* adopted, a live wrapper has released every adopted value but the one it
\* holds, after destruction the two counts are equal, and every release call
\* is made with the value held at that moment, which is never the sentinel.
C1_ReleaseOncePerOwned ==
    /\ life[1] = "alive" =>
          released[1] + (IF m_Handle[1] # SentinelOf(ty[1]) THEN 1 ELSE 0) = adopted[1]
    /\ life[1] = "dead" => released[1] = adopted[1]
    /\ ReleasedHeld
    /\ \A i \in 1..Len(last.ev) :
          last.ev[i].k = "close" => last.ev[i].h # SentinelOf(ty[1])

\* the end-to-end scenario: two values adopted in turn, then destruction
C1_Witness ==
    /\ life[1] = "dead"
    /\ adopted[1] = 2
    /\ released[1] = 2
    /\ last.op = "Destroy"
    /\ last.pre # SentinelOf(ty[1])

\* C2: when every raw value passed in is open at the moment of the call (or is
\* the sentinel), no release function is ever called with a value that is not
\* open any more, and once the wrapper is destroyed nothing it adopted is
\* still open.
C2_NoDoubleFreeNoLeak ==
    allLive => /\ ~badClose
               /\ life[1] = "dead" => live = {}

\* C3: operator= on a wrapper holding a valid raw1 makes exactly one release
\* call, with raw1, before the store of the new value, and leaves m_Handle
\* equal to the new value; on an invalid wrapper it makes no release call and
\* leaves m_Handle equal to the new value.
C3_AssignClosesFirst ==
    last.op = "Assign" =>
        /\ m_Handle[last.w] = last.arg
        /\ last.ev # <<>>
        /\ last.ev[Len(last.ev)] = StoreEv(last.arg)
        /\ IF last.pre # SentinelOf(ty[last.w])
           THEN /\ Closed(last.ev) = <<last.pre>>
                /\ FirstClose >= 1
                /\ \A j \in 1..(FirstClose - 1) : last.ev[j].k # "store"
           ELSE Closed(last.ev) = <<>>

C3_Witness ==
    /\ last.op = "Assign"
    /\ last.pre # SentinelOf(ty[last.w])
    /\ last.arg # SentinelOf(ty[last.w])
    /\ last.arg # last.pre
    /\ Closed(last.ev) = <<last.pre>>

\* C4: Close() on a valid wrapper calls the category's release function
\* exactly once, with the value held before the call, and leaves the wrapper
\* holding the sentinel, so that Valid() is false.
C4_CloseValid ==
    (last.op = "Close" /\ last.pre # SentinelOf(ty[last.w])) =>
        /\ Closed(last.ev) = <<last.pre>>
        /\ \A i \in 1..Len(last.ev) :
              last.ev[i].k = "close" =>
                  last.ev[i].fn = IF ty[last.w] \in HandleType THEN "CloseHandle"
                                  ELSE MacroTraits[ty[last.w]].close
        /\ m_Handle[last.w] = SentinelOf(ty[last.w])
        /\ ~Valid(ty[last.w], Self(last.w))

C4_Witness ==
    /\ last.op = "Close"
    /\ last.pre \in RealHandles
    /\ released[last.w] = 1
    /\ last.pre \notin live

\* C5: Close() on an invalid wrapper makes no release call and leaves the
\* sentinel in place, and from any state of a live wrapper a second Close()
\* adds no release call and no store to what the first one did.
C5_CloseIdempotent ==
    /\ (last.op = "Close" /\ last.pre = SentinelOf(ty[last.w])) =>
          /\ last.ev = <<>>
          /\ m_Handle[last.w] = SentinelOf(ty[last.w])
    /\ \A w \in Wrappers :
          life[w] = "alive" =>
              LET once == Close(ty[w], Self(w))
              IN  Close(ty[w], once) = once

\* Close() called again after a Close() that released a handle
C5_Witness ==
    /\ last.op = "Close"
    /\ last.pre = SentinelOf(ty[last.w])
    /\ adopted[last.w] >= 1
    /\ released[last.w] = adopted[last.w]

\* C6: the destructor of a valid wrapper makes exactly one release call, with
\* the held value; the destructor of an invalid wrapper makes none.
C6_Destruction ==
    last.op = "Destroy" =>
        /\ life[last.w] = "dead"
        /\ IF last.pre # SentinelOf(ty[last.w])
           THEN Closed(last.ev) = <<last.pre>>
           ELSE Closed(last.ev) = <<>>

C6_Witness ==
    /\ last.op = "Destroy"
    /\ last.pre \in RealHandles
    /\ released[last.w] = 1

C8_FamiliesResolved ==
    /\ \A c \in NullFamily :
          Instantiable(c) /\ GetHandleInvalidValue(c) = NULL
    /\ \A c \in InvalidFamily :
          Instantiable(c) /\ GetHandleInvalidValue(c) = INVALID_HANDLE_VALUE

\* the wrappers that hold the value v as a non-sentinel value
Holders(v) ==
    {w \in Wrappers : life[w] = "alive" /\ m_Handle[w] = v /\ v # SentinelOf(ty[w])}

\* C9 as stated: at most one live wrapper holds a given non-sentinel value.
C9_UniqueHolder == \A v \in Handles : Cardinality(Holders(v)) <= 1

\* C9 as amended: when every raw value passed to a constructor or to operator=
\* came straight from a creation API or was the wrapper's sentinel, at most
\* one live wrapper holds a given non-sentinel value.
C9_UniqueHolderOfFresh == allFresh => C9_UniqueHolder

\* two live wrappers each hold a handle a creation API returned, the second
\* one taken by the call just made
C9_Witness ==
    /\ allFresh
    /\ last.op \in {"Construct", "Assign"}
    /\ \E w1, w2 \in Wrappers :
          /\ w1 # w2
          /\ last.w = w2
          /\ life[w1] = "alive" /\ life[w2] = "alive"
          /\ m_Handle[w1] \in live /\ m_Handle[w2] \in live
          /\ m_Handle[w1] # m_Handle[w2]

\* C10: a store through operator& makes no release call and leaves the stored
\* value in m_Handle; a release call is only ever made with the value held
\* when it is made; and every non-sentinel value that entered the slot, by
\* constructor, operator= or store, is accounted for exactly once: released,
\* overwritten by a store while valid (never released), or still held.
C10_AddressOfBypass ==
    /\ last.op = "AddrWrite" =>
          /\ Closed(last.ev) = <<>>
          /\ m_Handle[last.w] = last.arg
    /\ ReleasedHeld
    /\ \A w \in Wrappers :
          released[w] + lost[w]
            + (IF life[w] = "alive" /\ m_Handle[w] # SentinelOf(ty[w]) THEN 1 ELSE 0)
          = adopted[w] + written[w]

\* a store into a valid wrapper whose old value stays open after destruction
C10_Witness ==
    /\ life[1] = "dead"
    /\ lost[1] = 1
    /\ written[1] = 1
    /\ released[1] = 1
    /\ live # {}
    /\ allFresh

====
